---- MODULE Spec2Model ----
(***************************************************************************)
(* The deployment scripts of KeySocket-v2 (deploy.py, reload.py,          *)
(* deploy-light.py, util_scripts/keysocket-restart.py) as one state       *)
(* machine.  A script is a list of statements (run an external command,   *)
(* write a line to the console, sleep); the machine executes the          *)
(* statement under the program counter.  The external commands are        *)
(* opaque: each invocation returns an exit code drawn from ExitCodes.     *)
(***************************************************************************)
EXTENDS Integers, Sequences, FiniteSets

VARIABLES script, blk, pc, trace, exc, env, applied, exitCode

vars == <<script, blk, pc, trace, exc, env, applied, exitCode>>

(* ------------------------------ bounds -------------------------------- *)

\* Largest exit code an external command returns in the model.
MaxExit == 2

ExitCodes == 0 .. MaxExit

\* Text a command can write to a captured stdout (branch name, pm2 path).
Branches == {"main", "dev"}
Pm2Paths == {"/usr/bin/pm2", ""}

(* ---------------------------- statements ------------------------------ *)

\* run([...], check=c) / check_call(...) / call(...) / os.popen(...):
\* an external command; bind names the variable its stdout is stored in,
\* arg the variable interpolated into the command line.
R(what, check) ==
    [kind |-> "run", what |-> what, check |-> check, secs |-> 0,
     level |-> "", arg |-> "", bind |-> ""]

RB(what, check, bind) ==
    [kind |-> "run", what |-> what, check |-> check, secs |-> 0,
     level |-> "", arg |-> "", bind |-> bind]

RA(what, check, arg) ==
    [kind |-> "run", what |-> what, check |-> check, secs |-> 0,
     level |-> "", arg |-> arg, bind |-> ""]

\* print(...) and the log wrappers; arg names an interpolated variable.
P(level, what) ==
    [kind |-> "print", what |-> what, check |-> FALSE, secs |-> 0,
     level |-> level, arg |-> "", bind |-> ""]

PA(level, what, arg) ==
    [kind |-> "print", what |-> what, check |-> FALSE, secs |-> 0,
     level |-> level, arg |-> arg, bind |-> ""]

\* time.sleep(secs)
S(secs) ==
    [kind |-> "sleep", what |-> "sleep", check |-> FALSE, secs |-> secs,
     level |-> "", arg |-> "", bind |-> ""]

(* ------------------------------ deploy.py ----------------------------- *)

GitBranch == "git branch --show-current"
GitFetchAll == "git fetch --all"
GitFetch == "git fetch"
GitPull == "git pull"
NpmInstall == "npm install"
NpmAudit == "npm audit"
Pm2StartOrReload == "pm2 startOrReload ecosystem.config.js --update-env"
Pm2Save == "pm2 save"
Pm2Reload == "pm2 reload keysocket --update-env"
Pm2Status == "pm2 status keysocket"
Curl == "curl -f -I --retry 3 --retry-delay 1 http://localhost:3000"
NginxTest == "sudo nginx -t"
NginxReload == "sudo systemctl reload nginx"
NginxRestart == "sudo systemctl restart nginx"
NginxStatus == "sudo systemctl status nginx --no-pager"

\* Variant: the branch detection does not check the exit code.
DeployPreUnchecked ==
    << RB(GitBranch, FALSE, "branch") >>

DeployPre ==
    << RB(GitBranch, TRUE, "branch") >>

DeployGit ==
    << PA("info", "You are currently on branch", "branch"),
       PA("action", "Fetching/Pulling latest changes from", "branch"),
       R(GitFetchAll, TRUE),
       P("success", "Fetched latest changes."),
       R(GitPull, TRUE),
       P("success", "Pulled latest changes."),
       S(1) >>

DeployDeps ==
    << P("action", "Installing backend dependencies..."),
       R(NpmInstall, TRUE),
       P("success", "Installed backend dependencies."),
       S(1),
       P("action", "Auditing dependencies..."),
       R(NpmAudit, FALSE),
       P("info", "Audit check complete."),
       S(1) >>

DeployBackend ==
    << P("action", "Reloading keysocket through pm2 (ecosystem)..."),
       R(Pm2StartOrReload, TRUE),
       P("success", "pm2 startOrReload executed."),
       R(Pm2Save, TRUE),
       P("success", "pm2 process list saved."),
       P("info", "Waiting for backend to stabilize (3s)..."),
       S(3) >>

DeployHealth ==
    << P("action", "Verifying backend is running on port 3000..."),
       R(Curl, TRUE),
       P("success", "Backend health check passed."),
       S(1) >>

DeployNginx ==
    << P("action", "Verifying nginx configuration..."),
       R(NginxTest, TRUE),
       P("success", "Nginx configuration valid."),
       S(1),
       P("action", "Reloading nginx..."),
       R(NginxReload, TRUE),
       P("success", "Nginx reloaded."),
       S(1) >>

\* Variant: the two status reports in the other order.
DeployStatusSwapped ==
    << P("info", "Checking pm2 status for keysocket..."),
       R(Pm2Status, FALSE),
       S(1),
       P("info", "Checking nginx status..."),
       R(NginxStatus, FALSE),
       S(1) >>

DeployStatus ==
    << P("info", "Checking nginx status..."),
       R(NginxStatus, FALSE),
       S(1),
       P("info", "Checking pm2 status for keysocket..."),
       R(Pm2Status, FALSE),
       S(1) >>

DeployDone ==
    << P("header", "Update and reload complete!"),
       P("success", "Deployment script finished successfully."),
       S(1) >>

DeployTry ==
    DeployGit \o DeployDeps \o DeployBackend \o DeployHealth
        \o DeployNginx \o DeployStatus \o DeployDone

\* Variant: the handler rolls the working copy back.
DeployExceptRollback ==
    << P("error", "!!!!"),
       P("error", "ERROR: One of the commands failed. Deployment stopped."),
       PA("error", "Command failed:", "e.cmd"),
       R("git reset --hard ORIG_HEAD", FALSE),
       P("error", "Check the logs above to see which step failed."),
       P("error", "!!!!") >>

DeployExcept ==
    << P("error", "!!!!"),
       P("error", "ERROR: One of the commands failed. Deployment stopped."),
       PA("error", "Command failed:", "e.cmd"),
       P("error", "Check the logs above to see which step failed."),
       P("error", "!!!!") >>

(* ------------------------------ reload.py ----------------------------- *)

ReloadTry ==
    << P("plain", "Fetching/Pulling latest changes..."),
       R(GitFetch, TRUE),
       P("plain", "Fetched latest changes."),
       R(GitPull, TRUE),
       P("plain", "Pulled latest changes."),
       S(1),
       P("plain", "Installing backend dependencies..."),
       R(NpmInstall, TRUE),
       P("plain", "Installed backend dependencies."),
       S(1),
       P("plain", "Auditing dependencies..."),
       R(NpmAudit, FALSE),
       P("plain", "Audited backend dependencies."),
       S(1),
       P("plain", "Reloading backend through pm2..."),
       R(Pm2Reload, TRUE),
       P("plain", "Reloaded backend through pm2."),
       S(1),
       P("plain", "Waiting for backend to stabilize (3s)..."),
       S(3),
       P("plain", "Verifying backend is running..."),
       R(Curl, TRUE),
       P("plain", "Verified backend."),
       S(1),
       P("plain", "Verifying nginx configuration..."),
       R(NginxTest, TRUE),
       P("plain", "Verified nginx configuration."),
       S(1),
       P("plain", "Reloading nginx..."),
       R(NginxReload, TRUE),
       P("plain", "Reloaded nginx."),
       S(1),
       P("plain", "Checking nginx status..."),
       R(NginxStatus, FALSE),
       P("plain", "Verified nginx status."),
       S(1),
       P("plain", "Checking pm2 status..."),
       R(Pm2Status, FALSE),
       P("plain", "Verified pm2 status."),
       S(1),
       P("plain", "Update and reload complete!") >>

ReloadExcept ==
    << P("error", "!!!!"),
       P("error", "ERROR: One of the commands failed. Deployment stopped."),
       P("error", "Check the logs above to see which step failed."),
       P("error", "!!!!") >>

(* --------------------------- deploy-light.py -------------------------- *)

LightTry ==
    << P("plain", "Fetching/Pulling latest changes..."),
       R(GitFetchAll, TRUE),
       P("plain", "Fetched latest changes."),
       R(GitPull, TRUE),
       P("plain", "Pulled latest changes."),
       P("plain", "Reloading keysocket through pm2..."),
       R(Pm2Reload, TRUE),
       P("plain", "Reload command sent."),
       P("plain", "Waiting for backend to stabilize (1s)..."),
       S(1),
       P("plain", "Reloading nginx..."),
       R(NginxReload, TRUE),
       P("plain", "Nginx reloaded."),
       P("plain", "Checking nginx status..."),
       R(NginxStatus, FALSE),
       P("plain", "Checking pm2 status for keysocket..."),
       R(Pm2Status, FALSE),
       P("plain", "Update and reload complete!") >>

LightExcept ==
    << P("error", "!!!!"),
       P("error", "ERROR: One of the commands failed. Deployment stopped."),
       P("error", "Check the logs above to see which step failed."),
       P("error", "!!!!") >>

(* -------------------- util_scripts/keysocket-restart.py --------------- *)

RestartPre ==
    << RB("which pm2", FALSE, "pm2_path"),
       R("echo Reloading PM2", FALSE),
       RA("reload 0 keysocket", FALSE, "pm2_path"),
       RA("status", FALSE, "pm2_path"),
       R(NginxTest, FALSE),
       R("echo Restarting Nginx", FALSE),
       R("sleep 2s", FALSE),
       R(NginxRestart, FALSE) >>

(* ------------------------------ programs ------------------------------ *)

Scripts == {"deploy.py", "reload.py", "deploy-light.py", "keysocket-restart.py"}

\* Statements before the try statement (module level, outside any handler).
Pre(s) ==
    CASE s = "deploy.py" -> DeployPre
      [] s = "keysocket-restart.py" -> RestartPre
      [] OTHER -> << >>

\* Body of the try statement.
Try(s) ==
    CASE s = "deploy.py" -> DeployTry
      [] s = "reload.py" -> ReloadTry
      [] s = "deploy-light.py" -> LightTry
      [] OTHER -> << >>

\* Body of the except CalledProcessError clause.
Except(s) ==
    CASE s = "deploy.py" -> DeployExcept
      [] s = "reload.py" -> ReloadExcept
      [] s = "deploy-light.py" -> LightExcept
      [] OTHER -> << >>

Block(s, b) ==
    CASE b = "pre" -> Pre(s)
      [] b = "try" -> Try(s)
      [] b = "except" -> Except(s)
      [] OTHER -> << >>

(* ------------------------------ semantics ----------------------------- *)

Stmt(s, b, i) == Block(s, b)[i]

\* Position of a statement in the program text: module level first, then
\* the try body, then the except clause.
Rank(s, b, i) ==
    CASE b = "pre" -> i
      [] b = "try" -> Len(Pre(s)) + i
      [] OTHER -> Len(Pre(s)) + Len(Try(s)) + i

\* Variant: no call checks the exit code.
RaisesNever(stmt, code) == FALSE

\* Variant: every call checks the exit code.
RaisesAlways(stmt, code) == code # 0

\* subprocess.run(check=True) and check_call raise CalledProcessError on a
\* non-zero exit code; run(check=False), call and os.popen never do.
Raises(stmt, code) == stmt.check /\ code # 0

\* Variant: after the except clause the try body is run again.
AdvanceRetry(s, b, i) ==
    IF i < Len(Block(s, b)) THEN [blk |-> b, pc |-> i + 1]
    ELSE IF b = "pre" /\ Len(Try(s)) > 0 THEN [blk |-> "try", pc |-> 1]
    ELSE IF b = "except" THEN [blk |-> "try", pc |-> 1]
    ELSE [blk |-> "end", pc |-> 1]

\* Control after a statement that completed normally: the next statement
\* of the block; after the module-level statements the try body; after the
\* try body or the except clause the end of the script.
Advance(s, b, i) ==
    IF i < Len(Block(s, b)) THEN [blk |-> b, pc |-> i + 1]
    ELSE IF b = "pre" /\ Len(Try(s)) > 0 THEN [blk |-> "try", pc |-> 1]
    ELSE [blk |-> "end", pc |-> 1]

\* Commands that change the external systems when they succeed.
Mutating ==
    {GitFetchAll, GitFetch, GitPull, NpmInstall, Pm2StartOrReload, Pm2Save,
     Pm2Reload, NginxReload, NginxRestart, "reload 0 keysocket"}

\* The external systems keep the change of a command that exited 0.
Effect(done, what, code) ==
    IF what \in Mutating /\ code = 0 THEN Append(done, what) ELSE done

\* What a command can write to the stdout the script captures.
Outputs(bind) ==
    CASE bind = "branch" -> Branches
      [] bind = "pm2_path" -> Pm2Paths
      [] OTHER -> {""}

NoExc == [cmd |-> "", returncode |-> 0]

\* Value of an interpolated variable.
Val(name) ==
    CASE name = "branch" -> env.branch
      [] name = "pm2_path" -> env.pm2_path
      [] name = "e.cmd" -> exc.cmd
      [] OTHER -> ""

Bind(e, name, out) ==
    CASE name = "branch" -> [e EXCEPT !.branch = out]
      [] name = "pm2_path" -> [e EXCEPT !.pm2_path = out]
      [] OTHER -> e

RunEvent(stmt, code, at) ==
    [kind |-> "run", what |-> stmt.what, arg |-> Val(stmt.arg), code |-> code,
     check |-> stmt.check, level |-> "", secs |-> 0, shown |-> -1, at |-> at]

Running == blk \in {"pre", "try", "except"}

Cur == Stmt(script, blk, pc)

Start(s) ==
    IF Len(Pre(s)) > 0 THEN [blk |-> "pre", pc |-> 1] ELSE [blk |-> "try", pc |-> 1]

Init ==
    /\ script \in Scripts
    /\ blk = Start(script).blk
    /\ pc = Start(script).pc
    /\ trace = << >>
    /\ exc = NoExc
    /\ env = [branch |-> "", pm2_path |-> ""]
    /\ applied = << >>
    /\ exitCode = -1

\* An external command runs and the call returns: exit code 0, or any exit
\* code when the call does not check it.
Call ==
    /\ Running
    /\ Cur.kind = "run"
    /\ \E code \in ExitCodes, out \in Outputs(Cur.bind) :
        /\ ~Raises(Cur, code)
        /\ trace' = Append(trace, RunEvent(Cur, code, Rank(script, blk, pc)))
        /\ applied' = Effect(applied, Cur.what, code)
        /\ env' = Bind(env, Cur.bind, out)
    /\ blk' = Advance(script, blk, pc).blk
    /\ pc' = Advance(script, blk, pc).pc
    /\ UNCHANGED <<script, exc, exitCode>>

\* A checked command inside the try body exits non-zero: control goes to
\* the except CalledProcessError clause.
Raise ==
    /\ blk = "try"
    /\ Cur.kind = "run"
    /\ \E code \in ExitCodes :
        /\ Raises(Cur, code)
        /\ trace' = Append(trace, RunEvent(Cur, code, Rank(script, blk, pc)))
        /\ applied' = Effect(applied, Cur.what, code)
        /\ exc' = [cmd |-> Cur.what, returncode |-> code]
    /\ blk' = "except"
    /\ pc' = 1
    /\ UNCHANGED <<script, env, exitCode>>

\* A checked command outside the try statement exits non-zero: the
\* exception is not caught, the interpreter writes the traceback
\* ("Command ... returned non-zero exit status n") and exits with status 1.
Crash ==
    /\ blk \in {"pre", "except"}
    /\ Cur.kind = "run"
    /\ \E code \in ExitCodes :
        /\ Raises(Cur, code)
        /\ trace' = trace \o
              << RunEvent(Cur, code, Rank(script, blk, pc)),
                 [kind |-> "print", what |-> "CalledProcessError",
                  arg |-> Cur.what, code |-> -1, check |-> FALSE,
                  level |-> "traceback", secs |-> 0, shown |-> code,
                  at |-> Rank(script, blk, pc)] >>
        /\ applied' = Effect(applied, Cur.what, code)
        /\ exc' = [cmd |-> Cur.what, returncode |-> code]
    /\ blk' = "exited"
    /\ pc' = 1
    /\ exitCode' = 1
    /\ UNCHANGED <<script, env>>

\* print / log_*: one console entry.  No print of the scripts shows an
\* exit code.
Emit ==
    /\ Running
    /\ Cur.kind = "print"
    /\ trace' = Append(trace,
          [kind |-> "print", what |-> Cur.what, arg |-> Val(Cur.arg),
           code |-> -1, check |-> FALSE, level |-> Cur.level, secs |-> 0,
           shown |-> -1, at |-> Rank(script, blk, pc)])
    /\ blk' = Advance(script, blk, pc).blk
    /\ pc' = Advance(script, blk, pc).pc
    /\ UNCHANGED <<script, exc, env, applied, exitCode>>

\* time.sleep
Sleep ==
    /\ Running
    /\ Cur.kind = "sleep"
    /\ trace' = Append(trace,
          [kind |-> "sleep", what |-> Cur.what, arg |-> "", code |-> -1,
           check |-> FALSE, level |-> "", secs |-> Cur.secs, shown |-> -1,
           at |-> Rank(script, blk, pc)])
    /\ blk' = Advance(script, blk, pc).blk
    /\ pc' = Advance(script, blk, pc).pc
    /\ UNCHANGED <<script, exc, env, applied, exitCode>>

\* The script runs off its last statement (of the try body, of the except
\* clause, or of the module): the interpreter exits with status 0.
Exit ==
    /\ blk = "end"
    /\ blk' = "exited"
    /\ exitCode' = 0
    /\ UNCHANGED <<script, pc, trace, exc, env, applied>>

Next == Call \/ Raise \/ Crash \/ Emit \/ Sleep \/ Exit

Spec == Init /\ [][Next]_vars

(* --------------------------- observations ----------------------------- *)

Exited == blk = "exited"

IsRun(e) == e.kind = "run"

\* A checked (Blocking) command that exited non-zero.
BlockingFailure(e) == e.kind = "run" /\ e.check /\ e.code # 0

NoBlockingFailure == \A k \in 1 .. Len(trace) : ~BlockingFailure(trace[k])

Whats(seq) == [k \in 1 .. Len(seq) |-> seq[k].what]

\* The external commands of a sequence of statements or events, in order.
Commands(seq) == Whats(SelectSeq(seq, IsRun))

IsStep(e) == e.kind = "run" \/ (e.kind = "sleep" /\ e.secs = 3)

\* The external commands and the settle delay, in order.
Steps(seq) == Whats(SelectSeq(seq, IsStep))

Program(s) == Pre(s) \o Try(s)

Pipelines == {"deploy.py", "reload.py", "deploy-light.py"}

Printed(level, what) ==
    \E k \in 1 .. Len(trace) :
        trace[k].kind = "print" /\ trace[k].level = level /\ trace[k].what = what

Invoked(what) ==
    \E k \in 1 .. Len(trace) : trace[k].kind = "run" /\ trace[k].what = what

InvokedWith(what, code) ==
    \E k \in 1 .. Len(trace) :
        trace[k].kind = "run" /\ trace[k].what = what /\ trace[k].code = code

CompletionPrinted ==
    \E k \in 1 .. Len(trace) :
        trace[k].kind = "print" /\ trace[k].what = "Update and reload complete!"

BannerPrinted ==
    Printed("error", "ERROR: One of the commands failed. Deployment stopped.")

ReloadsProxy(e) == e.kind = "run" /\ e.what \in {NginxReload, NginxRestart}

ReloadsApp(what) == what \in {Pm2StartOrReload, Pm2Reload}

(* ------------------------------ claims -------------------------------- *)

\* C1: in every run of a pipeline, once a Blocking (checked) command has
\* exited non-zero no later command is invoked, whatever the earlier exit
\* codes were.
C1_BlockingFailureHalts ==
    script \in Pipelines =>
        \A k \in 1 .. Len(trace) :
            BlockingFailure(trace[k]) =>
                \A j \in (k + 1) .. Len(trace) : ~IsRun(trace[j])

\* A pipeline finished after the health check failed, an earlier Advisory
\* step having failed too.
C1_Witness ==
    /\ script = "reload.py"
    /\ Exited
    /\ InvokedWith(NpmAudit, 1)
    /\ InvokedWith(Curl, 2)

\* C2: the process exit code of a finished run is 0 if and only if no
\* Blocking step failed.
C2_ExitCodeZeroIffNoBlockingFailure ==
    Exited => (exitCode = 0 <=> NoBlockingFailure)

\* C3: the proxy is reloaded or restarted only after nginx -t was invoked
\* earlier in the same run and exited 0.
C3_ReloadOnlyAfterValidConfig ==
    \A k \in 1 .. Len(trace) :
        ReloadsProxy(trace[k]) =>
            \E j \in 1 .. (k - 1) :
                /\ trace[j].kind = "run"
                /\ trace[j].what = NginxTest
                /\ trace[j].code = 0

\* C4: a pipeline run in which no Blocking step fails never enters the
\* failure handler and ends as Success (completion message printed, every
\* command of the script invoked, exit status 0) whatever the Advisory
\* steps returned; the command invoked after the dependency audit is the
\* pm2 reload, whatever the audit returned.
C4_AdvisoryNeverChangesOutcome ==
    script \in Pipelines =>
        /\ NoBlockingFailure => blk # "except"
        /\ (Exited /\ NoBlockingFailure) =>
              /\ CompletionPrinted
              /\ ~BannerPrinted
              /\ Commands(trace) = Commands(Program(script))
              /\ exitCode = 0
        /\ \A k \in 1 .. Len(trace) :
              (IsRun(trace[k]) /\ trace[k].what = NpmAudit) =>
                  \A j \in (k + 1) .. Len(trace) :
                      (IsRun(trace[j])
                          /\ \A m \in (k + 1) .. (j - 1) : ~IsRun(trace[m]))
                      => ReloadsApp(trace[j].what)

\* deploy.py finished with Success although all three Advisory steps failed.
C4_Witness ==
    /\ script = "deploy.py"
    /\ Exited
    /\ NoBlockingFailure
    /\ InvokedWith(NpmAudit, 1)
    /\ InvokedWith(NginxStatus, 2)
    /\ InvokedWith(Pm2Status, 1)
    /\ Invoked(Pm2StartOrReload)
    /\ CompletionPrinted

CanonicalOrder ==
    << GitFetchAll, GitPull, NpmInstall, NpmAudit, Pm2StartOrReload, Pm2Save,
       "sleep", Curl, NginxTest, NginxReload, Pm2Status, NginxStatus >>

\* C5 as stated: a fully successful run of deploy.py invokes exactly
\* fetch, pull, install, audit, pm2 reload, pm2 save, settle delay, health
\* check, nginx -t, nginx reload, pm2 status, nginx status, in this order.
C5_CanonicalOrder ==
    (script = "deploy.py" /\ Exited /\ NoBlockingFailure) =>
        Steps(trace) = CanonicalOrder

ActualOrder ==
    << GitBranch, GitFetchAll, GitPull, NpmInstall, NpmAudit, Pm2StartOrReload,
       Pm2Save, "sleep", Curl, NginxTest, NginxReload, NginxStatus, Pm2Status >>

\* C5 amended: a fully successful run of deploy.py invokes exactly branch
\* detection, fetch, pull, install, audit, pm2 reload, pm2 save, settle
\* delay, health check, nginx -t, nginx reload, nginx status, pm2 status,
\* in this order.
C5_ActualOrder ==
    (script = "deploy.py" /\ Exited /\ NoBlockingFailure) =>
        Steps(trace) = ActualOrder

\* deploy.py ran to its end with every Blocking step succeeding.
C5_Witness ==
    /\ script = "deploy.py"
    /\ Exited
    /\ exitCode = 0
    /\ NoBlockingFailure
    /\ Invoked(Pm2Status)

\* A console entry that records a failure.
RecordsFailure(e) == e.kind = "print" /\ e.level \in {"error", "warn", "traceback"}

\* C6: after any command of a pipeline exits non-zero, the next thing the
\* runner does is to write a console entry recording the failure; it never
\* goes on, or finishes, without one.
C6_EveryFailureLogged ==
    \A k \in 1 .. Len(trace) :
        (script \in Pipelines /\ IsRun(trace[k]) /\ trace[k].code # 0) =>
            IF k < Len(trace) THEN RecordsFailure(trace[k + 1]) ELSE ~Exited

\* C7: when a run has finished after a Blocking step failed with exit code
\* c, the console holds an entry naming both the failing command and c.
C7_ReportsStepAndCode ==
    Exited =>
        \A k \in 1 .. Len(trace) :
            BlockingFailure(trace[k]) =>
                \E j \in (k + 1) .. Len(trace) :
                    /\ trace[j].kind = "print"
                    /\ trace[j].arg = trace[k].what
                    /\ trace[j].shown = trace[k].code

IsOk(e) == e.code = 0 /\ e.what \in Mutating

\* The changes the external systems keep, as the invoked commands made them.
ChangesMade == Whats(SelectSeq(SelectSeq(trace, IsRun), IsOk))

\* C8: in and after the failure handler the commands invoked are exactly
\* those of the script up to and including the failing step, the last of
\* them being the failing one, and the changes already made stay made;
\* when nginx -t is the failing step the application stays reloaded and
\* the proxy is not reloaded.
C8_NoCompensation ==
    (script \in Pipelines /\ exc # NoExc) =>
        /\ \E n \in 1 .. Len(Program(script)) :
              /\ Program(script)[n].kind = "run"
              /\ Program(script)[n].check
              /\ Program(script)[n].what = exc.cmd
              /\ Commands(trace) = Commands(SubSeq(Program(script), 1, n))
        /\ applied = ChangesMade
        /\ \A k \in 1 .. Len(trace) :
              (IsRun(trace[k]) /\ trace[k].what \in Mutating /\ trace[k].check)
                  => trace[k].code = 0 \/ trace[k].what = exc.cmd
        /\ exc.cmd = NginxTest =>
              /\ \E k \in 1 .. Len(applied) : ReloadsApp(applied[k])
              /\ \A k \in 1 .. Len(applied) : applied[k] # NginxReload
              /\ ~Invoked(NginxReload)

\* deploy.py finished after nginx -t exited 1.
C8_Witness ==
    /\ script = "deploy.py"
    /\ Exited
    /\ exc = [cmd |-> NginxTest, returncode |-> 1]
    /\ BannerPrinted

\* C9: the commands of a run are invoked in strictly increasing program
\* position: none twice, none after a later one.
C9_NoRetry ==
    \A j, k \in 1 .. Len(trace) :
        (j < k /\ IsRun(trace[j]) /\ IsRun(trace[k])) => trace[j].at < trace[k].at

\* A pipeline finished after an Advisory and a Blocking step both failed.
C9_Witness ==
    /\ script = "deploy.py"
    /\ Exited
    /\ InvokedWith(NpmAudit, 2)
    /\ InvokedWith(Curl, 1)

Uncaught ==
    \E k \in 1 .. Len(trace) : trace[k].kind = "print" /\ trace[k].level = "traceback"

====
